---- MODULE Spec2Model ----
(***************************************************************************)
(* Model of the bitboard move-generation core of chess_engine:             *)
(*   crates/chess_engine/src/board.rs   bitboard primitives, Board         *)
(*   crates/chess_engine/src/engine.rs  Side, PieceType, Move, Engine      *)
(*                                                                         *)
(* A Bitboard (u64) is modelled as the set of the indices of its set bits, *)
(* a subset of 0..63.  Bit i is square i = rank*8 + file.  Shifts drop the *)
(* bits that leave bits 0..63, as the 64-bit shifts of the code do, and    *)
(* the arithmetic the code does on a u64 (wrapping_neg, self - 1) is       *)
(* carried out bit by bit on that set.                                     *)
(***************************************************************************)
EXTENDS Integers, Sequences, FiniteSets

VARIABLES
    overflow_checks,    \* build profile: TRUE = overflow checks on (dev/test), FALSE = release
    bitboard,           \* the bitboard a primitive is applied to
    op,                 \* the primitive applied to it ("none" before the call)
    result,             \* the bitboard the primitive returned
    panicked,           \* TRUE when the call panicked instead of returning
    current,            \* BitboardIterator.current
    items,              \* the items next() has returned so far, in order
    exhausted,          \* TRUE once next() has returned None
    squares_by_type,    \* Engine.squares_by_type
    bitboard_by_side,   \* Engine.board.bitboard_by_side
    bitboard_by_piece,  \* Engine.board.bitboard_by_piece
    history,            \* the mutating Engine calls made so far, in order
    piece_move,         \* the Move passed to the last make_move
    invalid_move,       \* TRUE when that make_move printed "Invalid move made!"
    called,             \* the move generator called last, with its side
    moves               \* the Vec<Move> it returned

vars == <<overflow_checks, bitboard, op, result, panicked, current, items,
          exhausted, squares_by_type, bitboard_by_side, bitboard_by_piece,
          history, piece_move, invalid_move, called, moves>>

primVars == <<bitboard, op, result, panicked>>
iterVars == <<current, items, exhausted>>
engineVars == <<squares_by_type, bitboard_by_side, bitboard_by_piece, history,
                piece_move, invalid_move>>
genVars == <<called, moves>>

(***************************************************************************)
(* Bounds of the model.                                                    *)
(***************************************************************************)
\* Input bitboards have at most MaxBits set bits, or at most MaxHoles clear bits.
MaxBits == 2
MaxHoles == 0
\* Input boards hold the pieces of at most MaxPieces placements.
MaxPieces == 2
\* The engine is driven through at most MaxCalls mutating calls, its set_square
\* calls on the squares 0..MaxSquare and 63-MaxSquare..63.
MaxCalls == 2
MaxSquare == 0
\* A game is at most MaxGameCalls set_initial_position and make_move calls.
MaxGameCalls == 3

Squares == 0..63

\* The sets of at most k squares.
RECURSIVE AtMost(_)
AtMost(k) ==
    IF k = 0 THEN {{}}
    ELSE LET P == AtMost(k - 1) IN P \cup {p \cup {s} : p \in P, s \in Squares}

InputBitboards ==
    AtMost(MaxBits) \cup {Squares \ p : p \in AtMost(MaxHoles)}

(***************************************************************************)
(* u64 operations on the set of set bits.                                  *)
(***************************************************************************)
Shl(b, k) == {s + k : s \in b} \cap Squares
Shr(b, k) == {s - k : s \in b} \cap Squares
Not(b) == Squares \ b

\* b + 1 modulo 2^64: the carry runs through the low one bits.
WrappingAdd1(b) ==
    IF b = Squares THEN {}
    ELSE LET z == CHOOSE z \in Squares : z \notin b /\ \A y \in 0..(z - 1) : y \in b
         IN (b \ (0..(z - 1))) \cup {z}

\* b - 1 modulo 2^64: the borrow runs through the low zero bits.
WrappingSub1(b) ==
    IF b = {} THEN Squares
    ELSE LET l == CHOOSE l \in Squares : l \in b /\ \A y \in 0..(l - 1) : y \notin b
         IN (b \ {l}) \cup (0..(l - 1))

\* u64::wrapping_neg: two's complement negation, !b + 1.
wrapping_neg(b) == WrappingAdd1(Not(b))

\* u32 u64::trailing_zeros: the index of the lowest set bit, 64 for 0.
trailing_zeros(b) ==
    IF b = {} THEN 64
    ELSE CHOOSE l \in Squares : l \in b /\ \A y \in 0..(l - 1) : y \notin b

(***************************************************************************)
(* BitboardOps                                                             *)
(***************************************************************************)
get_ls1b_and_not(b) == b \cap Not(b)

get_ls1b(b) == b \cap wrapping_neg(b)

\* `self - 1` on a u64 overflows exactly when self = 0: with overflow checks
\* the call panics, without them the subtraction wraps.
remove_ls1b_overflows(b) == b = {}

remove_ls1b_highest(b) ==
    IF b = {} THEN {}
    ELSE b \ {CHOOSE h \in b : \A y \in b : y <= h}

remove_ls1b(b) == b \cap WrappingSub1(b)

RANK_1 == 0..7
RANK_2 == 8..15
RANK_3 == 16..23
RANK_4 == 24..31
RANK_5 == 32..39
RANK_6 == 40..47
RANK_7 == 48..55
RANK_8 == 56..63

FILE_A == {0, 8, 16, 24, 32, 40, 48, 56}
FILE_B == {1, 9, 17, 25, 33, 41, 49, 57}
FILE_C == {2, 10, 18, 26, 34, 42, 50, 58}
FILE_D == {3, 11, 19, 27, 35, 43, 51, 59}
FILE_E == {4, 12, 20, 28, 36, 44, 52, 60}
FILE_F == {5, 13, 21, 29, 37, 45, 53, 61}
FILE_G == {6, 14, 22, 30, 38, 46, 54, 62}
FILE_H == {7, 15, 23, 31, 39, 47, 55, 63}

Direction ==
    {"N", "E", "S", "W", "NE", "SE", "SW", "NW",
     "NNE", "NEE", "SEE", "SSE", "SSW", "SWW", "NWW", "NNW"}

KNIGHT_ATTACKS_DIRECTIONS ==
    <<"NNE", "NEE", "SEE", "SSE", "SSW", "SWW", "NWW", "NNW">>

bb_shift(b, direction) ==
    CASE direction = "N" -> Shl(b, 8)
      [] direction = "E" -> Shl(b, 1) \cap Not(FILE_A)
      [] direction = "S" -> Shr(b, 8)
      [] direction = "W" -> Shr(b, 1) \cap Not(FILE_H)
      [] direction = "NE" -> Shl(b, 9) \cap Not(FILE_A)
      [] direction = "SE" -> Shr(b, 7) \cap Not(FILE_A)
      [] direction = "SW" -> Shr(b, 9) \cap Not(FILE_H)
      [] direction = "NW" -> Shl(b, 7) \cap Not(FILE_H)
      [] direction = "NNE" -> Shl(b, 17) \cap Not(FILE_A)
      [] direction = "NEE" -> Shl(b, 10) \cap Not(FILE_A)
      [] direction = "SEE" -> Shr(b, 6) \cap Not(FILE_A)
      [] direction = "SSE" -> Shr(b, 15) \cap Not(FILE_A)
      [] direction = "SSW" -> Shr(b, 17) \cap Not(FILE_H)
      [] direction = "SWW" -> Shr(b, 10) \cap Not(FILE_H)
      [] direction = "NWW" -> Shl(b, 6) \cap Not(FILE_H)
      [] direction = "NNW" -> Shl(b, 15) \cap Not(FILE_H)

(***************************************************************************)
(* engine.rs: Side, PieceType, Move                                        *)
(***************************************************************************)
\* Side::Count only sizes arrays; it is never passed as a side here.
Side == {"White", "Black"}

PieceType == {"Pawn", "Knight", "Bishop", "Rook", "Queen", "King"}

\* Option<PieceType>
OptionPieceType == PieceType \cup {"None"}

flip(side) ==
    CASE side = "White" -> "Black"
      [] side = "Black" -> "White"
      [] OTHER -> "Count"

Move(from, to, promote) == [from |-> from, to |-> to, promote |-> promote]

(***************************************************************************)
(* board.rs: pawn push and attack targets                                  *)
(***************************************************************************)
single_pawn_push_swapped(pawns, empty, side) ==
    CASE side = "White" -> bb_shift(pawns, "S") \cap empty
      [] side = "Black" -> bb_shift(pawns, "N") \cap empty
      [] OTHER -> {}

single_pawn_push(pawns, empty, side) ==
    CASE side = "White" -> bb_shift(pawns, "N") \cap empty
      [] side = "Black" -> bb_shift(pawns, "S") \cap empty
      [] OTHER -> {}

double_pawn_push_unblocked(pawns, empty, side) ==
    CASE side = "White" -> bb_shift(bb_shift(pawns \cap RANK_2, "N"), "N") \cap empty
      [] side = "Black" -> bb_shift(bb_shift(pawns \cap RANK_7, "S"), "S") \cap empty
      [] OTHER -> {}

double_pawn_push(pawns, empty, side) ==
    CASE side = "White" ->
             bb_shift(single_pawn_push(pawns \cap RANK_2, empty, side), "N") \cap empty
      [] side = "Black" ->
             bb_shift(single_pawn_push(pawns \cap RANK_7, empty, side), "S") \cap empty
      [] OTHER -> {}

pawn_east_attacks_unmasked(pawns, enemy_pieces, side) ==
    CASE side = "White" -> bb_shift(pawns, "NE")
      [] side = "Black" -> bb_shift(pawns, "SE")
      [] OTHER -> {}

pawn_east_attacks(pawns, enemy_pieces, side) ==
    CASE side = "White" -> bb_shift(pawns, "NE") \cap enemy_pieces
      [] side = "Black" -> bb_shift(pawns, "SE") \cap enemy_pieces
      [] OTHER -> {}

pawn_west_attacks(pawns, enemy_pieces, side) ==
    CASE side = "White" -> bb_shift(pawns, "NW") \cap enemy_pieces
      [] side = "Black" -> bb_shift(pawns, "SW") \cap enemy_pieces
      [] OTHER -> {}

(***************************************************************************)
(* board.rs: Board                                                         *)
(***************************************************************************)
\* Board::new: attacks_by_piece, filled for the knight only, by OR-ing the
\* eight knight shifts of the single bit of each square.
attacks_by_piece(piece, square) ==
    IF piece = "Knight"
    THEN UNION {bb_shift({square}, KNIGHT_ATTACKS_DIRECTIONS[i]) :
                    i \in 1..Len(KNIGHT_ATTACKS_DIRECTIONS)}
    ELSE {}

\* The items b.iter() yields, in order.
RECURSIVE IterItems(_)
IterItems(b) ==
    IF b # {} THEN <<get_ls1b(b)>> \o IterItems(remove_ls1b(b)) ELSE <<>>

\* The concatenation of a sequence of sequences: the pushes of a nested for_each.
RECURSIVE Concat(_)
Concat(ss) == IF ss = <<>> THEN <<>> ELSE Head(ss) \o Concat(Tail(ss))

promotion_rank_seventh(side) ==
    CASE side = "White" -> RANK_7
      [] side = "Black" -> RANK_2
      [] OTHER -> Squares

promotion_rank(side) ==
    CASE side = "White" -> RANK_8
      [] side = "Black" -> RANK_1
      [] OTHER -> Squares

promotion_piece(to_square, side) ==
    IF to_square \cap promotion_rank(side) # {} THEN "Queen" ELSE "None"

\* Board::generate_pawn_moves on the board (by_side, by_piece).
generate_pawn_moves(by_side, by_piece, side) ==
    LET opp_bitboard == by_side[flip(side)]
        our_pawns == by_piece["Pawn"] \cap by_side[side]
        empty == Not(by_side[side]) \cap Not(opp_bitboard)
        singles == IterItems(single_pawn_push(our_pawns, empty, side))
        doubles == IterItems(double_pawn_push(our_pawns, empty, side))
        easts == IterItems(pawn_east_attacks(our_pawns, opp_bitboard, side))
        wests == IterItems(pawn_west_attacks(our_pawns, opp_bitboard, side))
        single_from(to_square) ==
            CASE side = "White" -> Shr(to_square, 8)
              [] side = "Black" -> Shl(to_square, 8)
              [] OTHER -> {}
        double_from(to_square) ==
            CASE side = "White" -> Shr(to_square, 16)
              [] side = "Black" -> Shl(to_square, 16)
              [] OTHER -> {}
        east_sources(target_piece) ==
            IterItems(pawn_west_attacks(target_piece, our_pawns, flip(side)))
        west_sources(target_piece) ==
            IterItems(pawn_east_attacks(target_piece, our_pawns, flip(side)))
    IN  [i \in 1..Len(singles) |->
            Move(trailing_zeros(single_from(singles[i])),
                 trailing_zeros(singles[i]),
                 promotion_piece(singles[i], side))]
        \o
        [i \in 1..Len(doubles) |->
            Move(trailing_zeros(double_from(doubles[i])),
                 trailing_zeros(doubles[i]),
                 "None")]
        \o
        Concat([i \in 1..Len(easts) |->
            [j \in 1..Len(east_sources(easts[i])) |->
                Move(trailing_zeros(east_sources(easts[i])[j]),
                     trailing_zeros(easts[i]),
                     promotion_piece(easts[i], side))]])
        \o
        Concat([i \in 1..Len(wests) |->
            [j \in 1..Len(west_sources(wests[i])) |->
                Move(trailing_zeros(west_sources(wests[i])[j]),
                     trailing_zeros(wests[i]),
                     promotion_piece(wests[i], side))]])

\* Board::generate_knight_moves on the board (by_side, by_piece).
generate_knight_moves(by_side, by_piece, side) ==
    LET opp_bitboard == by_side[flip(side)]
        our_bitboard == by_side[side]
        empty_bitboard == Not(our_bitboard) \cap Not(opp_bitboard)
        our_knights == IterItems(by_piece["Knight"] \cap by_side[side])
        knight_moves(knight_source) ==
            IterItems(attacks_by_piece("Knight", trailing_zeros(knight_source))
                          \cap empty_bitboard)
    IN  Concat([i \in 1..Len(our_knights) |->
            [j \in 1..Len(knight_moves(our_knights[i])) |->
                Move(trailing_zeros(our_knights[i]),
                     trailing_zeros(knight_moves(our_knights[i])[j]),
                     "None")]])

(***************************************************************************)
(* engine.rs: Engine.  An engine value is the record of its three fields   *)
(* (the attack table of its board never changes and is attacks_by_piece).  *)
(***************************************************************************)
\* Engine::default()
NewEngine ==
    [squares_by_type |-> [q \in Squares |-> "None"],
     bitboard_by_side |-> [s \in Side |-> {}],
     bitboard_by_piece |-> [t \in PieceType |-> {}]]

set_square_keep_other_side(e, square_idx, side, piece_type) ==
    IF piece_type # "None"
    THEN [squares_by_type |-> [e.squares_by_type EXCEPT ![square_idx] = piece_type],
          bitboard_by_side |->
              [e.bitboard_by_side EXCEPT ![side] = @ \cup {square_idx}],
          bitboard_by_piece |->
              [e.bitboard_by_piece EXCEPT ![piece_type] = @ \cup {square_idx}]]
    ELSE [squares_by_type |-> [e.squares_by_type EXCEPT ![square_idx] = piece_type],
          bitboard_by_side |->
              [e.bitboard_by_side EXCEPT ![side] = @ \ {square_idx}],
          bitboard_by_piece |->
              [t \in PieceType |-> e.bitboard_by_piece[t] \ {square_idx}]]

\* Engine::set_square; 1 << square_idx is the bitboard {square_idx}.
set_square(e, square_idx, side, piece_type) ==
    IF piece_type # "None"
    THEN [squares_by_type |-> [e.squares_by_type EXCEPT ![square_idx] = piece_type],
          bitboard_by_side |->
              [e.bitboard_by_side EXCEPT ![side] = @ \cup {square_idx},
                                         ![flip(side)] = @ \ {square_idx}],
          bitboard_by_piece |->
              [e.bitboard_by_piece EXCEPT ![piece_type] = @ \cup {square_idx}]]
    ELSE [squares_by_type |-> [e.squares_by_type EXCEPT ![square_idx] = piece_type],
          bitboard_by_side |->
              [e.bitboard_by_side EXCEPT ![side] = @ \ {square_idx}],
          bitboard_by_piece |->
              [t \in PieceType |-> e.bitboard_by_piece[t] \ {square_idx}]]

\* The set_square calls of Engine::set_initial_position, in order.
InitialPlacements ==
    Concat([file \in 1..8 |->
               <<<<7 + file, "White", "Pawn">>, <<47 + file, "Black", "Pawn">>>>])
    \o <<<<1, "White", "Knight">>, <<6, "White", "Knight">>,
         <<57, "Black", "Knight">>, <<62, "Black", "Knight">>,
         <<2, "White", "Bishop">>, <<5, "White", "Bishop">>,
         <<58, "Black", "Bishop">>, <<61, "Black", "Bishop">>,
         <<0, "White", "Rook">>, <<7, "White", "Rook">>,
         <<56, "Black", "Rook">>, <<63, "Black", "Rook">>,
         <<3, "White", "Queen">>, <<59, "Black", "Queen">>,
         <<4, "White", "King">>, <<60, "Black", "King">>>>

\* e after the set_square calls of the sequence, made in order.
RECURSIVE SetSquares(_, _)
SetSquares(e, calls) ==
    IF calls = <<>> THEN e
    ELSE SetSquares(set_square(e, Head(calls)[1], Head(calls)[2], Head(calls)[3]),
                    Tail(calls))

\* Engine::set_initial_position
set_initial_position(e) == SetSquares(e, InitialPlacements)

\* Engine::make_move returns early, printing "Invalid move made!", when the
\* piece index holds no piece on the source square.
make_move_invalid(e, piece_move_) == e.squares_by_type[piece_move_.from] = "None"

\* make_move without the early return: as far as a promotion piece lets it go on.
make_move_unchecked(e, piece_move_) ==
    LET from_index == piece_move_.from
        to_index == piece_move_.to
        side == IF from_index \in e.bitboard_by_side["White"] THEN "White" ELSE "Black"
        from_piece_type == e.squares_by_type[from_index]
        to_piece_type ==
            IF piece_move_.promote # "None" THEN piece_move_.promote ELSE from_piece_type
    IN  IF to_piece_type = "None" THEN e
        ELSE set_square(set_square(e, from_index, side, "None"),
                        to_index, side, to_piece_type)

\* Engine::make_move; 1 << piece_move.from is the bitboard {from}.
make_move(e, piece_move_) ==
    LET from_index == piece_move_.from
        to_index == piece_move_.to
        side == IF from_index \in e.bitboard_by_side["White"] THEN "White" ELSE "Black"
        from_piece_type == e.squares_by_type[from_index]
        to_piece_type ==
            IF piece_move_.promote # "None" THEN piece_move_.promote ELSE from_piece_type
    IN  IF from_piece_type = "None" THEN e
        ELSE set_square(set_square(e, from_index, side, "None"),
                        to_index, side, to_piece_type)

\* The engine the state variables hold.
Engine ==
    [squares_by_type |-> squares_by_type,
     bitboard_by_side |-> bitboard_by_side,
     bitboard_by_piece |-> bitboard_by_piece]

EngineIs(e) ==
    /\ squares_by_type = e.squares_by_type
    /\ bitboard_by_side = e.bitboard_by_side
    /\ bitboard_by_piece = e.bitboard_by_piece

EngineBecomes(e) ==
    /\ squares_by_type' = e.squares_by_type
    /\ bitboard_by_side' = e.bitboard_by_side
    /\ bitboard_by_piece' = e.bitboard_by_piece

(***************************************************************************)
(* Idle values of the variables a specification does not use.              *)
(***************************************************************************)
\* The move generators and the engine do no arithmetic that can overflow: they
\* reach remove_ls1b only through BitboardIterator::next, with current != 0.
BuildIdle == overflow_checks = TRUE

PrimIdle ==
    /\ bitboard = {}
    /\ op = "none"
    /\ result = {}
    /\ panicked = FALSE

IterIdle ==
    /\ current = {}
    /\ items = <<>>
    /\ exhausted = FALSE

\* Engine::default(): no piece on any square, Board::new() with zeroed bitboards.
\* No make_move has been called.
MoveIdle ==
    /\ piece_move = Move(0, 0, "None")
    /\ invalid_move = FALSE

EngineDefault ==
    /\ EngineIs(NewEngine)
    /\ history = <<>>
    /\ MoveIdle

GenIdle ==
    /\ called = [fn |-> "none", side |-> "none"]
    /\ moves = <<>>

(***************************************************************************)
(* Directional shift: one call of bb_shift on an input bitboard.           *)
(***************************************************************************)
InitShift ==
    /\ overflow_checks \in BOOLEAN
    /\ bitboard \in InputBitboards
    /\ op = "none"
    /\ result = {}
    /\ panicked = FALSE
    /\ IterIdle /\ EngineDefault /\ GenIdle

CallBbShift(direction) ==
    /\ op = "none"
    /\ op' = direction
    /\ result' = bb_shift(bitboard, direction)
    /\ UNCHANGED <<overflow_checks, bitboard, panicked, iterVars, engineVars, genVars>>

NextShift == \E direction \in Direction : CallBbShift(direction)

SpecShift == InitShift /\ [][NextShift]_vars

(***************************************************************************)
(* get_ls1b and remove_ls1b: one call on an input bitboard.                *)
(***************************************************************************)
InitLs1b ==
    /\ overflow_checks \in BOOLEAN
    /\ bitboard \in InputBitboards
    /\ op = "none"
    /\ result = {}
    /\ panicked = FALSE
    /\ IterIdle /\ EngineDefault /\ GenIdle

CallGetLs1b ==
    /\ op = "none"
    /\ op' = "get_ls1b"
    /\ result' = get_ls1b(bitboard)
    /\ UNCHANGED <<overflow_checks, bitboard, panicked, iterVars, engineVars, genVars>>

CallRemoveLs1b ==
    /\ op = "none"
    /\ op' = "remove_ls1b"
    /\ IF overflow_checks /\ remove_ls1b_overflows(bitboard)
       THEN panicked' = TRUE /\ result' = result
       ELSE panicked' = FALSE /\ result' = remove_ls1b(bitboard)
    /\ UNCHANGED <<overflow_checks, bitboard, iterVars, engineVars, genVars>>

NextLs1b == CallGetLs1b \/ CallRemoveLs1b

SpecLs1b == InitLs1b /\ [][NextLs1b]_vars

(***************************************************************************)
(* BitboardIterator: iter() on an input bitboard, then next() until None.  *)
(***************************************************************************)
InitIter ==
    /\ overflow_checks \in BOOLEAN
    /\ bitboard \in InputBitboards
    /\ op = "none"
    /\ result = {}
    /\ panicked = FALSE
    /\ IterIdle /\ EngineDefault /\ GenIdle

\* BitboardOps::iter
CallIter ==
    /\ op = "none"
    /\ op' = "iter"
    /\ current' = bitboard
    /\ items' = <<>>
    /\ exhausted' = FALSE
    /\ UNCHANGED <<overflow_checks, bitboard, result, panicked, engineVars, genVars>>

\* BitboardIterator::next.  remove_ls1b is only reached with current != 0, so
\* its subtraction cannot overflow here.
CallNext ==
    /\ op = "iter"
    /\ ~exhausted
    /\ IF current # {}
       THEN /\ items' = Append(items, get_ls1b(current))
            /\ current' = remove_ls1b(current)
            /\ exhausted' = FALSE
       ELSE /\ exhausted' = TRUE
            /\ UNCHANGED <<current, items>>
    /\ UNCHANGED <<overflow_checks, primVars, engineVars, genVars>>

NextIter == CallIter \/ CallNext

SpecIter == InitIter /\ [][NextIter]_vars

(***************************************************************************)
(* Move generation, called once on the engine's board.                     *)
(***************************************************************************)
CallGeneratePawnMoves(side) ==
    /\ called.fn = "none"
    /\ called' = [fn |-> "generate_pawn_moves", side |-> side]
    /\ moves' = generate_pawn_moves(bitboard_by_side, bitboard_by_piece, side)
    /\ UNCHANGED <<overflow_checks, primVars, iterVars, engineVars>>

CallGenerateKnightMoves(side) ==
    /\ called.fn = "none"
    /\ called' = [fn |-> "generate_knight_moves", side |-> side]
    /\ moves' = generate_knight_moves(bitboard_by_side, bitboard_by_piece, side)
    /\ UNCHANGED <<overflow_checks, primVars, iterVars, engineVars>>

(***************************************************************************)
(* Knight moves of a lone knight: the board holds one knight, of either    *)
(* side, on any square.                                                    *)
(***************************************************************************)
InitKnight ==
    /\ BuildIdle
    /\ PrimIdle /\ IterIdle /\ GenIdle
    /\ \E s \in Squares : \E side \in Side :
           EngineIs(set_square(NewEngine, s, side, "Knight"))
    /\ history = <<>>
    /\ MoveIdle

NextKnight == \E side \in Side : CallGenerateKnightMoves(side)

SpecKnight == InitKnight /\ [][NextKnight]_vars

(***************************************************************************)
(* Pawn moves on the boards of at most MaxPieces placements of pawns and   *)
(* knights of either side on the squares of BoardFiles.                    *)
(***************************************************************************)
\* Files a, b and h (both edges, and a pair of neighbouring files), and the
\* squares d5 and e6.
BoardFiles == {0, 1, 7}
BoardSquares == {s \in Squares : s % 8 \in BoardFiles} \cup {35, 44}
BoardPieces == {"Pawn", "Knight"}

RECURSIVE Positions(_)
Positions(k) ==
    IF k = 0 THEN {NewEngine}
    ELSE LET P == Positions(k - 1)
         IN P \cup {set_square(e, s, side, t) :
                        e \in P, s \in BoardSquares, side \in Side, t \in BoardPieces}

InitPawn ==
    /\ BuildIdle
    /\ PrimIdle /\ IterIdle /\ GenIdle
    /\ \E e \in Positions(MaxPieces) : EngineIs(e)
    /\ history = <<>>
    /\ MoveIdle

NextPawn == \E side \in Side : CallGeneratePawnMoves(side)

SpecPawn == InitPawn /\ [][NextPawn]_vars

(***************************************************************************)
(* The engine from Engine::default(): set_square and set_initial_position  *)
(* calls, at most MaxCalls of them, then one generate_pawn_moves.          *)
(***************************************************************************)
SetSquareInputs == {s \in Squares : s <= MaxSquare \/ s >= 63 - MaxSquare}

CallSetSquare(square_idx, side, piece_type) ==
    /\ called.fn = "none"
    /\ Len(history) < MaxCalls
    /\ EngineBecomes(set_square(Engine, square_idx, side, piece_type))
    /\ history' = Append(history, "set_square")
    /\ UNCHANGED <<overflow_checks, primVars, iterVars, genVars, piece_move, invalid_move>>

CallSetInitialPosition ==
    /\ called.fn = "none"
    /\ Len(history) < MaxCalls
    /\ EngineBecomes(set_initial_position(Engine))
    /\ history' = Append(history, "set_initial_position")
    /\ UNCHANGED <<overflow_checks, primVars, iterVars, genVars, piece_move, invalid_move>>

InitEngine ==
    /\ BuildIdle
    /\ PrimIdle /\ IterIdle /\ GenIdle
    /\ EngineDefault

NextEngine ==
    \/ \E square_idx \in SetSquareInputs : \E side \in Side :
           \E piece_type \in OptionPieceType :
               CallSetSquare(square_idx, side, piece_type)
    \/ CallSetInitialPosition
    \/ \E side \in Side : CallGeneratePawnMoves(side)

SpecEngine == InitEngine /\ [][NextEngine]_vars

(***************************************************************************)
(* A game: on the engine from Engine::default(), at most MaxGameCalls       *)
(* set_initial_position and make_move calls, the moves between the squares *)
(* of GameSquares with any promotion.                                      *)
(***************************************************************************)
\* a1 and h8 (the rooks), e2 (a White pawn), e4 (empty in the starting position).
GameSquares == {0, 12, 28, 63}

CallGameSetInitialPosition ==
    /\ Len(history) < MaxGameCalls
    /\ EngineBecomes(set_initial_position(Engine))
    /\ history' = Append(history, "set_initial_position")
    /\ UNCHANGED <<overflow_checks, primVars, iterVars, genVars, piece_move, invalid_move>>

CallMakeMove(from, to, promote) ==
    /\ Len(history) < MaxGameCalls
    /\ piece_move' = Move(from, to, promote)
    /\ invalid_move' = make_move_invalid(Engine, Move(from, to, promote))
    /\ EngineBecomes(make_move(Engine, Move(from, to, promote)))
    /\ history' = Append(history, "make_move")
    /\ UNCHANGED <<overflow_checks, primVars, iterVars, genVars>>

InitGame ==
    /\ BuildIdle
    /\ PrimIdle /\ IterIdle /\ GenIdle
    /\ EngineDefault

NextGame ==
    \/ CallGameSetInitialPosition
    \/ \E from \in GameSquares : \E to \in GameSquares :
           \E promote \in OptionPieceType : CallMakeMove(from, to, promote)

SpecGame == InitGame /\ [][NextGame]_vars

(***************************************************************************)
(* Properties of the bitboard primitives.                                  *)
(***************************************************************************)
\* The (file-delta, rank-delta) each direction stands for.
Delta(direction) ==
    CASE direction = "N" -> <<0, 1>>
      [] direction = "E" -> <<1, 0>>
      [] direction = "S" -> <<0, -1>>
      [] direction = "W" -> <<-1, 0>>
      [] direction = "NE" -> <<1, 1>>
      [] direction = "SE" -> <<1, -1>>
      [] direction = "SW" -> <<-1, -1>>
      [] direction = "NW" -> <<-1, 1>>
      [] direction = "NNE" -> <<1, 2>>
      [] direction = "NEE" -> <<2, 1>>
      [] direction = "SEE" -> <<2, -1>>
      [] direction = "SSE" -> <<1, -2>>
      [] direction = "SSW" -> <<-1, -2>>
      [] direction = "SWW" -> <<-2, -1>>
      [] direction = "NWW" -> <<-2, 1>>
      [] direction = "NNW" -> <<-1, 2>>

FileOf(s) == s % 8
RankOf(s) == s \div 8

\* The squares of b moved by (df, dr), those that leave the board dropped.
Translate(b, df, dr) ==
    {8 * (RankOf(s) + dr) + (FileOf(s) + df) :
        s \in {q \in b : /\ FileOf(q) + df \in 0..7
                         /\ RankOf(q) + dr \in 0..7}}

\* The lowest square of a non-empty bitboard.
Lowest(b) == CHOOSE m \in b : \A y \in b : m <= y

\* C1: for every bitboard and each of the sixteen directions, bb_shift returns
\* exactly the on-board translation of the bitboard by the direction's
\* (file-delta, rank-delta): no square wraps around to another file or rank.
C1_ShiftIsTranslation ==
    op \in Direction =>
        result = Translate(bitboard, Delta(op)[1], Delta(op)[2])

\* C8: iterating a bitboard yields single-bit bitboards, each a set bit of the
\* bitboard, in strictly ascending square order (so each once); what has been
\* yielded and what is left make up the bitboard; next() returns None after
\* exactly popcount items, and at once for the empty bitboard.
C8_IterationVisitsSetBitsAscending ==
    op = "iter" =>
        /\ \A i \in 1..Len(items) :
               /\ Cardinality(items[i]) = 1
               /\ items[i] \subseteq bitboard
        /\ \A i \in 1..Len(items) : \A j \in 1..Len(items) :
               i < j => Lowest(items[i]) < Lowest(items[j])
        /\ UNION {items[i] : i \in 1..Len(items)} \cup current = bitboard
        /\ UNION {items[i] : i \in 1..Len(items)} \cap current = {}
        /\ Len(items) + Cardinality(current) = Cardinality(bitboard)
        /\ exhausted =>
               /\ current = {}
               /\ Len(items) = Cardinality(bitboard)
               /\ UNION {items[i] : i \in 1..Len(items)} = bitboard
        /\ (bitboard = {} /\ exhausted) => items = <<>>

\* A bitboard of two or more bits has been iterated to the end.
C8_Witness ==
    /\ op = "iter"
    /\ exhausted
    /\ Len(items) >= 2

\* C9: on a non-zero bitboard get_ls1b returns exactly the lowest set bit, and
\* remove_ls1b returns the bitboard without that bit: the two results are
\* disjoint and together make up the bitboard.
C9_Ls1bLaws ==
    bitboard # {} =>
        /\ op = "get_ls1b" =>
               /\ result = {Lowest(bitboard)}
               /\ remove_ls1b(bitboard) \cup result = bitboard
               /\ remove_ls1b(bitboard) \cap result = {}
        /\ op = "remove_ls1b" =>
               /\ ~panicked
               /\ result = bitboard \ {Lowest(bitboard)}
               /\ result \cup get_ls1b(bitboard) = bitboard
               /\ result \cap get_ls1b(bitboard) = {}

\* remove_ls1b has returned on a bitboard of two or more bits.
C9_Witness ==
    /\ op = "remove_ls1b"
    /\ Cardinality(bitboard) >= 2
    /\ ~panicked
    /\ result # {}

\* C10: on the empty bitboard get_ls1b and remove_ls1b both return, and
\* return 0.
C10_TotalOnZero ==
    (bitboard = {} /\ op \in {"get_ls1b", "remove_ls1b"}) =>
        /\ ~panicked
        /\ result = {}

(***************************************************************************)
(* Properties of the engine and of move generation.                        *)
(***************************************************************************)
\* The moves of the returned list, as a set.
MoveSet == {moves[i] : i \in 1..Len(moves)}

OnBoard(f, r) == f \in 0..7 /\ r \in 0..7

\* +1 for the side whose pawns move up the ranks, -1 for the other.
Forward(side) == IF side = "White" THEN 1 ELSE -1

\* The squares a knight's leap away from s.
KnightLeaps(s) ==
    {8 * (RankOf(s) + d[2]) + FileOf(s) + d[1] :
        d \in {d \in {<<1, 2>>, <<2, 1>>, <<2, -1>>, <<1, -2>>,
                      <<-1, -2>>, <<-2, -1>>, <<-2, 1>>, <<-1, 2>>} :
                  OnBoard(FileOf(s) + d[1], RankOf(s) + d[2])}}

\* C2: after any sequence of set_square calls on a new engine, no square is in
\* both side bitboards.
C2_SidesDisjoint ==
    bitboard_by_side["White"] \cap bitboard_by_side["Black"] = {}

\* After set_initial_position gave a1 to White, a set_square call has given
\* it to Black.
C2_Witness ==
    /\ history = <<"set_initial_position", "set_square">>
    /\ 0 \in bitboard_by_side["Black"]

\* C3: on a board whose only piece is a knight of side S on s,
\* generate_knight_moves(S) returns exactly one move s->t, not promoting, for
\* every on-board square t a knight's leap from s, and nothing else.
C3_LoneKnightMoves ==
    \A s \in Squares :
        (/\ called.fn = "generate_knight_moves"
         /\ bitboard_by_side[called.side] = {s}
         /\ bitboard_by_piece["Knight"] = {s})
        => /\ MoveSet = {Move(s, t, "None") : t \in KnightLeaps(s)}
           /\ Len(moves) = Cardinality(KnightLeaps(s))

\* C4: on a new engine after one set_initial_position, generate_pawn_moves(White)
\* returns exactly 16 moves, the single pushes x2->x3 and the double pushes
\* x2->x4 of the eight files, none promoting.
C4_InitialWhitePawnMoves ==
    (/\ history = <<"set_initial_position">>
     /\ called = [fn |-> "generate_pawn_moves", side |-> "White"])
    => /\ Len(moves) = 16
       /\ MoveSet = {Move(8 + x, 16 + x, "None") : x \in 0..7}
                        \cup {Move(8 + x, 24 + x, "None") : x \in 0..7}

C4_Witness ==
    /\ history = <<"set_initial_position">>
    /\ called = [fn |-> "generate_pawn_moves", side |-> "White"]
    /\ Cardinality(bitboard_by_side["White"] \cup bitboard_by_side["Black"]) = 32

\* The pawns of a side: the squares in the pawn bitboard and the side's bitboard.
PawnsOf(side) == bitboard_by_piece["Pawn"] \cap bitboard_by_side[side]

Occupied == bitboard_by_side["White"] \cup bitboard_by_side["Black"]

\* The captures a side's pawns have: from a pawn of the side, one rank forward
\* and one file east or west on the board, onto a square of the opponent.
Captures(side) ==
    {<<from, 8 * (RankOf(from) + Forward(side)) + FileOf(from) + df>> :
        <<from, df>> \in
            {x \in PawnsOf(side) \X {-1, 1} :
                /\ OnBoard(FileOf(x[1]) + x[2], RankOf(x[1]) + Forward(side))
                /\ 8 * (RankOf(x[1]) + Forward(side)) + FileOf(x[1]) + x[2]
                       \in bitboard_by_side[flip(side)]}}

\* C5: on a board with disjoint sides, the diagonal moves generate_pawn_moves(S)
\* returns are exactly the captures of S's pawns: none lands on an empty or
\* own square, and a White pawn on d5 with a Black piece on e6 yields d5->e6.
C5_DiagonalMovesAreCaptures ==
    (/\ called.fn = "generate_pawn_moves"
     /\ bitboard_by_side["White"] \cap bitboard_by_side["Black"] = {})
    => /\ {<<m.from, m.to>> : m \in {m \in MoveSet : FileOf(m.from) # FileOf(m.to)}}
              = Captures(called.side)
       /\ \A m \in MoveSet :
              FileOf(m.from) # FileOf(m.to) => m.to \in bitboard_by_side[flip(called.side)]
       /\ (called.side = "White" /\ 35 \in PawnsOf("White")
               /\ 44 \in bitboard_by_side["Black"])
              => \E m \in MoveSet : m.from = 35 /\ m.to = 44

\* generate_pawn_moves(White) has run with a White pawn on d5 and a Black pawn on e6.
C5_Witness ==
    /\ called = [fn |-> "generate_pawn_moves", side |-> "White"]
    /\ 35 \in PawnsOf("White")
    /\ 44 \in PawnsOf("Black")

\* The squares from which a side has a double push: a pawn of the side on its
\* starting rank with the two squares ahead of it empty.
DoublePushSources(side) ==
    {s \in PawnsOf(side) :
        /\ RankOf(s) = (IF side = "White" THEN 1 ELSE 6)
        /\ s + 8 * Forward(side) \notin Occupied
        /\ s + 16 * Forward(side) \notin Occupied}

\* C6: generate_pawn_moves(S) contains the double push of s iff s holds a pawn
\* of S on S's starting rank and the square ahead of it and the one after are
\* both empty; with the square ahead occupied there is none.
C6_DoublePushGating ==
    called.fn = "generate_pawn_moves" =>
        /\ \A s \in Squares :
               (\E m \in MoveSet : m.from = s /\ m.to = s + 16 * Forward(called.side))
                   <=> s \in DoublePushSources(called.side)
        /\ \A m \in MoveSet : m.to # m.from - 16 * Forward(called.side)

\* A pawn on its starting rank is blocked on the square ahead, the square after
\* being empty.
C6_Witness ==
    /\ called.fn = "generate_pawn_moves"
    /\ \E s \in PawnsOf(called.side) :
           /\ RankOf(s) = (IF called.side = "White" THEN 1 ELSE 6)
           /\ s + 8 * Forward(called.side) \in Occupied
           /\ s + 16 * Forward(called.side) \notin Occupied

\* C7: every move generate_pawn_moves(S) returns promotes to a queen iff it ends
\* on S's back rank (rank 8 for White, rank 1 for Black), and otherwise does
\* not promote.
C7_PromotionIffBackRank ==
    called.fn = "generate_pawn_moves" =>
        \A m \in MoveSet :
            /\ m.promote \in {"Queen", "None"}
            /\ m.promote = "Queen"
                   <=> RankOf(m.to) = (IF called.side = "White" THEN 7 ELSE 0)

\* The list holds a promoting push and a promoting capture.
C7_Witness ==
    /\ called.fn = "generate_pawn_moves"
    /\ \E m \in MoveSet : m.promote = "Queen" /\ FileOf(m.from) # FileOf(m.to)
    /\ \E m \in MoveSet : m.promote = "Queen" /\ FileOf(m.from) = FileOf(m.to)

(***************************************************************************)
(* Properties of a game.                                                   *)
(***************************************************************************)
\* The piece types whose bitboard holds square q.
TypesOn(q) == {t \in PieceType : q \in bitboard_by_piece[t]}

\* C11: after any sequence of set_initial_position and make_move calls on a
\* new engine, every square is in at most one piece-type bitboard, and it is
\* in the bitboard of type t iff the piece index holds t on it: a captured
\* piece leaves no bit behind.
C11_PieceBitboardsMatchIndex ==
    \A q \in Squares :
        /\ Cardinality(TypesOn(q)) <= 1
        /\ \A t \in PieceType : q \in bitboard_by_piece[t] <=> squares_by_type[q] = t

\* C12: set_initial_position, called in any state of a game, leaves the engine
\* in the standard starting position, that of a new engine after one
\* set_initial_position.
C12_InitialPositionResets ==
    (history # <<>> /\ history[Len(history)] = "set_initial_position")
        => Engine = set_initial_position(NewEngine)

\* C13: a make_move whose source square holds no piece in the piece index
\* leaves the piece index, both side bitboards and the six piece-type
\* bitboards as they were, whatever its destination and promotion are.
C13_EmptySourceRejected ==
    [][(/\ history' = Append(history, "make_move")
        /\ squares_by_type[piece_move'.from] = "None")
       => UNCHANGED <<squares_by_type, bitboard_by_side, bitboard_by_piece>>]_vars

\* In a position with pieces, a move from an empty square onto a piece, with a
\* promotion, has been rejected.
C13_Witness ==
    /\ invalid_move
    /\ history[Len(history)] = "make_move"
    /\ piece_move.to \in bitboard_by_side["White"] \cup bitboard_by_side["Black"]
    /\ piece_move.promote # "None"
    /\ piece_move.from # piece_move.to

====
